---- MODULE Spec2Model ----
(***************************************************************************)
(* Model of pkg/resources/spotinst/aws.go (the Spotinst provider adapter)  *)
(* and of the awsmodel AutoscalingGroupModelBuilder that follows it in the *)
(* same source file.                                                       *)
(*                                                                         *)
(* Conventions.  A Go pointer is a sequence of length at most one: Nil is  *)
(* the nil pointer and Ptr(v) points at v.  A Go string that the code      *)
(* searches or lower-cases is a sequence of one-character strings; other   *)
(* strings are TLA+ strings.  An error value of the builder is a string,   *)
(* NoError standing for Go's nil error.                                    *)
(***************************************************************************)
EXTENDS Integers, Sequences, FiniteSets, TLC

VARIABLES
    \* ---- provider adapter ----
    apc,            \* position of the adapter call: "idle" or "returned"
    variant,        \* which service the call went to: "eg", "oc" or "ls"
    backendErr,     \* the error the backend (x.svc) call returned
    deleteRet,      \* the error Delete returned to its caller
    call,           \* the call made: the operation and its arguments
    request,        \* the input the call sent to the backend (x.svc)
    detachRet,      \* the error Detach returned to its caller
    \* ---- model builder ----
    InstanceGroups, \* b.InstanceGroups: the instance group specs, in order
    inputSpecs,     \* history: InstanceGroups as they were when Build was called
    collab,         \* per instance group: what the collaborators answer
    Cluster,        \* b.Cluster and the cluster-level policies
    featureflag,    \* featureflag.Spotinst / featureflag.SpotinstHybrid
    rejected,       \* task keys the registry layer rejects
    Tasks,          \* c.Tasks: the registry entries in registration order
    pos,            \* index of the next instance group of Build's loop
    pc,             \* position of Build: "loop" or "returned"
    buildErr        \* the error Build returned

adapterVars == <<apc, variant, backendErr, deleteRet, call, request, detachRet>>
inputVars   == <<collab, Cluster, featureflag, rejected, inputSpecs>>
buildVars   == <<InstanceGroups, inputVars, Tasks, pos, pc, buildErr>>
vars        == <<adapterVars, buildVars>>

(***************************************************************************)
(* Pointers (upup/pkg/fi value helpers).                                   *)
(***************************************************************************)
Nil == <<>>
Ptr(v) == <<v>>

\* fi.StringValue: "" for nil
StringValue(p) == IF p = Nil THEN "" ELSE p[1]
\* fi.Int32Value / fi.Int64Value: 0 for nil
Int32Value(p) == IF p = Nil THEN 0 ELSE p[1]
\* fi.BoolValue: false for nil
BoolValue(p) == IF p = Nil THEN FALSE ELSE p[1]

NoError == "nil"

(***************************************************************************)
(* Bounds of the model.                                                    *)
(***************************************************************************)
\* longest client.Errors list the backend returns
MaxErrs == 2
\* most instance groups in one build pass
MaxIGs == 2
\* most external references (security groups, load balancers, target
\* groups) listed by the instance groups of one build pass
MaxRefs == 2
\* most additional volumes of an instance group
MaxVolumes == 2

\* all sequences over S of length at most n
RECURSIVE SeqsUpTo(_, _)
SeqsUpTo(S, n) ==
    IF n = 0 THEN {<<>>}
    ELSE LET shorter == SeqsUpTo(S, n - 1)
         IN  shorter \cup {Append(s, x) : s \in {t \in shorter : Len(t) = n - 1}, x \in S}

(***************************************************************************)
(* Provider adapter: strings of the backend error messages.                *)
(***************************************************************************)
\* the literal of line 311
OceanGone == <<"o","c","e","a","n"," ","d","o","e","s"," ","n","o","t"," ","e","x","i","s","t">>

MsgExact == <<"O","c","e","a","n"," ","d","o","e","s"," ","n","o","t"," ","e","x","i","s","t">>
MsgUpper == <<"O","C","E","A","N"," ","D","O","E","S"," ","N","O","T"," ","E","X","I","S","T">>
MsgLower == <<"o","c","e","a","n"," ","d","o","e","s"," ","n","o","t"," ","e","x","i","s","t">>
MsgEmbedded == <<"c","a","n","'","t"," ","d","e","l","e","t","e",":"," ","O","c","e","a","n"," ","D","o","e","s"," ","N","o","t"," ","E","x","i","s","t",".">>
MsgTruncated == <<"O","c","e","a","n"," ","d","o","e","s"," ","n","o","t"," ","e","x","i","s">>
MsgOther == <<"S","p","e","c"," ","d","o","e","s"," ","n","o","t"," ","e","x","i","s","t">>
MsgThrottle == <<"R","a","t","e"," ","l","i","m","i","t">>
MsgEmpty == <<>>

Messages == {MsgExact, MsgUpper, MsgLower, MsgEmbedded, MsgTruncated, MsgOther,
             MsgThrottle, MsgEmpty}

UpperToLower ==
    "A" :> "a" @@ "B" :> "b" @@ "C" :> "c" @@ "D" :> "d" @@ "E" :> "e" @@ "F" :> "f" @@
    "G" :> "g" @@ "H" :> "h" @@ "I" :> "i" @@ "J" :> "j" @@ "K" :> "k" @@ "L" :> "l" @@
    "M" :> "m" @@ "N" :> "n" @@ "O" :> "o" @@ "P" :> "p" @@ "Q" :> "q" @@ "R" :> "r" @@
    "S" :> "s" @@ "T" :> "t" @@ "U" :> "u" @@ "V" :> "v" @@ "W" :> "w" @@ "X" :> "x" @@
    "Y" :> "y" @@ "Z" :> "z"

\* strings.ToLower
ToLower(s) ==
    [i \in 1..Len(s) |-> IF s[i] \in DOMAIN UpperToLower THEN UpperToLower[s[i]] ELSE s[i]]

\* strings.Contains
Contains(s, substr) ==
    \E i \in 0..(Len(s) - Len(substr)) : SubSeq(s, i + 1, i + Len(substr)) = substr

(***************************************************************************)
(* Provider adapter: error values.  The backend answers with no error, a   *)
(* plain error (any Go error that is not a client.Errors) or a             *)
(* client.Errors list of client.Error records.                             *)
(***************************************************************************)
NilErr == [form |-> "nil"]
PlainError(m) == [form |-> "plain", msg |-> m]
ClientErrors(es) == [form |-> "client.Errors", errs |-> es]
ClientError(m) == [Message |-> m]

BackendOutcomes ==
    {NilErr}
    \cup {PlainError(m) : m \in Messages}
    \cup {ClientErrors(es) : es \in SeqsUpTo({ClientError(m) : m \in Messages}, MaxErrs)}

\* awsElastigroupService.Delete: the backend error is returned as it is
ElastigroupDelete(err) == err

\* awsOceanClusterService.Delete: the backend error is returned as it is
OceanClusterDelete(err) == err

\* a Delete that looks at the first error of the list only
OceanLaunchSpecDeleteFirstOnly(err) ==
    IF err # NilErr
    THEN IF /\ err.form = "client.Errors"
            /\ Len(err.errs) > 0
            /\ Contains(ToLower(err.errs[1].Message), OceanGone)
         THEN NilErr
         ELSE err
    ELSE NilErr

\* awsOceanLaunchSpecService.Delete
OceanLaunchSpecDelete(err) ==
    IF err # NilErr
    THEN IF /\ err.form = "client.Errors"
            /\ \E i \in 1..Len(err.errs) :
                   Contains(ToLower(err.errs[i].Message), OceanGone)
         THEN NilErr
         ELSE err
    ELSE NilErr

\* the identities a caller passes: groups, clusters, launch specs, instances
GroupIDs == {"sig-1", "ols-2"}
InstanceIDs == {"i-1", "i-2"}

NoCall == [op |-> "none"]
DeleteCall(id) == [op |-> "Delete", id |-> id]
DetachCall(id, instanceID) == [op |-> "Detach", id |-> id, instanceID |-> instanceID]

\* the inputs of the three Delete methods
DeleteGroupInput(groupID) == [input |-> "awseg.DeleteGroupInput", GroupID |-> Ptr(groupID)]
DeleteClusterInput(clusterID) ==
    [input |-> "awsoc.DeleteClusterInput", ClusterID |-> Ptr(clusterID)]
DeleteLaunchSpecInput(specID) ==
    [input |-> "awsoc.DeleteLaunchSpecInput", LaunchSpecID |-> Ptr(specID)]

\* awsElastigroupService.Detach: the input it sends
ElastigroupDetachInput(groupID, instanceID) ==
    [ input |-> "awseg.DetachGroupInput",
      GroupID |-> Ptr(groupID),
      InstanceIDs |-> <<instanceID>>,
      ShouldDecrementTargetCapacity |-> Ptr(FALSE),
      ShouldTerminateInstances |-> Ptr(TRUE) ]

\* awsOceanClusterService.Detach: the input it sends
OceanClusterDetachInput(clusterID, instanceID) ==
    [ input |-> "awsoc.DetachClusterInstancesInput",
      ClusterID |-> Ptr(clusterID),
      InstanceIDs |-> <<instanceID>>,
      ShouldDecrementTargetCapacity |-> Ptr(FALSE),
      ShouldTerminateInstances |-> Ptr(TRUE) ]

\* a launch spec Detach that lets the backend lower the target capacity and
\* keep the instance
OceanLaunchSpecDetachInputDecrement(specID, instanceID) ==
    [ input |-> "awsoc.DetachClusterInstancesInput",
      ClusterID |-> Ptr(specID),
      InstanceIDs |-> <<instanceID>>,
      ShouldDecrementTargetCapacity |-> Ptr(TRUE),
      ShouldTerminateInstances |-> Ptr(FALSE) ]

\* awsOceanLaunchSpecService.Detach: the input it sends; the launch spec's
\* identity travels in the ClusterID field of the cluster's detach input
OceanLaunchSpecDetachInput(specID, instanceID) ==
    [ input |-> "awsoc.DetachClusterInstancesInput",
      ClusterID |-> Ptr(specID),
      InstanceIDs |-> <<instanceID>>,
      ShouldDecrementTargetCapacity |-> Ptr(FALSE),
      ShouldTerminateInstances |-> Ptr(TRUE) ]

\* what the backend answers to a Detach
DetachOutcomes ==
    {NilErr, PlainError(MsgOther), ClientErrors(<<ClientError(MsgThrottle)>>)}

AdapterInit ==
    /\ apc = "idle"
    /\ variant = "none"
    /\ backendErr = NilErr
    /\ deleteRet = NilErr
    /\ call = NoCall
    /\ request = [input |-> "none"]
    /\ detachRet = NilErr

\* one Delete call on the classic group service, the backend answering err
EgDelete ==
    /\ apc = "idle"
    /\ \E err \in BackendOutcomes :
        /\ backendErr' = err
        /\ deleteRet' = ElastigroupDelete(err)
    /\ \E id \in GroupIDs :
        /\ call' = DeleteCall(id)
        /\ request' = DeleteGroupInput(id)
    /\ variant' = "eg"
    /\ apc' = "returned"
    /\ UNCHANGED <<detachRet, buildVars>>

\* one Delete call on the managed cluster service
OcDelete ==
    /\ apc = "idle"
    /\ \E err \in BackendOutcomes :
        /\ backendErr' = err
        /\ deleteRet' = OceanClusterDelete(err)
    /\ \E id \in GroupIDs :
        /\ call' = DeleteCall(id)
        /\ request' = DeleteClusterInput(id)
    /\ variant' = "oc"
    /\ apc' = "returned"
    /\ UNCHANGED <<detachRet, buildVars>>

\* one Delete call on the managed launch spec service
LsDelete ==
    /\ apc = "idle"
    /\ \E err \in BackendOutcomes :
        /\ backendErr' = err
        /\ deleteRet' = OceanLaunchSpecDelete(err)
    /\ \E id \in GroupIDs :
        /\ call' = DeleteCall(id)
        /\ request' = DeleteLaunchSpecInput(id)
    /\ variant' = "ls"
    /\ apc' = "returned"
    /\ UNCHANGED <<detachRet, buildVars>>

\* one Detach call on the classic group service; the backend's error is
\* returned as it is
EgDetach ==
    /\ apc = "idle"
    /\ \E groupID \in GroupIDs, instanceID \in InstanceIDs :
        /\ call' = DetachCall(groupID, instanceID)
        /\ request' = ElastigroupDetachInput(groupID, instanceID)
    /\ \E err \in DetachOutcomes :
        /\ backendErr' = err
        /\ detachRet' = err
    /\ variant' = "eg"
    /\ apc' = "returned"
    /\ UNCHANGED <<deleteRet, buildVars>>

\* one Detach call on the managed cluster service
OcDetach ==
    /\ apc = "idle"
    /\ \E clusterID \in GroupIDs, instanceID \in InstanceIDs :
        /\ call' = DetachCall(clusterID, instanceID)
        /\ request' = OceanClusterDetachInput(clusterID, instanceID)
    /\ \E err \in DetachOutcomes :
        /\ backendErr' = err
        /\ detachRet' = err
    /\ variant' = "oc"
    /\ apc' = "returned"
    /\ UNCHANGED <<deleteRet, buildVars>>

\* one Detach call on the managed launch spec service
LsDetach ==
    /\ apc = "idle"
    /\ \E specID \in GroupIDs, instanceID \in InstanceIDs :
        /\ call' = DetachCall(specID, instanceID)
        /\ request' = OceanLaunchSpecDetachInput(specID, instanceID)
    /\ \E err \in DetachOutcomes :
        /\ backendErr' = err
        /\ detachRet' = err
    /\ variant' = "ls"
    /\ apc' = "returned"
    /\ UNCHANGED <<deleteRet, buildVars>>


(***************************************************************************)
(* Model builder: constants of the source.                                 *)
(***************************************************************************)
DefaultVolumeType == "gp2"
DefaultVolumeIonIops == 100
DefaultVolumeGp3Iops == 3000
DefaultVolumeGp3Throughput == 125
DefaultVolumeDeleteOnTermination == TRUE
DefaultVolumeEncryption == FALSE

ClusterName == "c1"

\* kops.InstanceGroupRole values, and a role the volume-size policy does not know
InstanceGroupRoleMaster == "Master"
InstanceGroupRoleNode == "Node"
InstanceGroupRoleBastion == "Bastion"
RoleWithoutPolicy == "APIServer"

(***************************************************************************)
(* Model builder: collaborators outside the source file.                   *)
(***************************************************************************)
\* defaults.DefaultInstanceGroupVolumeSize: the role-based volume-size policy
DefaultInstanceGroupVolumeSize(role) ==
    CASE role = InstanceGroupRoleMaster  -> [err |-> NoError, size |-> 64]
      [] role = InstanceGroupRoleNode    -> [err |-> NoError, size |-> 128]
      [] role = InstanceGroupRoleBastion -> [err |-> NoError, size |-> 32]
      [] OTHER -> [err |-> "no default volume size for role", size |-> -1]

\* b.AutoscalingGroupName
AutoscalingGroupName(ig) == ig.Name \o "." \o ClusterName

\* b.LinkToSecurityGroup: the role's default security group
LinkToSecurityGroup(role) ==
    [kind |-> "SecurityGroup", Name |-> Ptr(role \o "." \o ClusterName)]

\* b.LinkToCLB
LinkToCLB(prefix) ==
    [kind |-> "ClassicLoadBalancer", Name |-> Ptr(prefix \o "." \o ClusterName)]

\* b.LinkToTargetGroup
LinkToTargetGroup(prefix) ==
    [kind |-> "TargetGroup", Name |-> Ptr(prefix \o "-" \o ClusterName)]

\* the target group ARNs of the model; the last one is not an ARN
ArnTgA == "arn:aws:elasticloadbalancing:us-east-1:1:targetgroup/tg-a/1"
ArnTgB == "arn:aws:elasticloadbalancing:us-east-1:1:targetgroup/tg-b/2"
ArnBad == "not-an-arn"

\* awsup.GetTargetGroupNameFromARN
GetTargetGroupNameFromARN(arn) ==
    CASE arn = ArnTgA -> [err |-> NoError, name |-> "tg-a"]
      [] arn = ArnTgB -> [err |-> NoError, name |-> "tg-b"]
      [] OTHER -> [err |-> "error parsing target group ARN", name |-> ""]

\* every name a load balancer or target group of the model can have, in the
\* byte order Go compares strings in
NameOrder ==
    << "a-lb",
       "api.c1",
       "bastion.c1",
       "bastion.c1-tg-a",
       "bastion.c1-tg-b",
       "extra.c1-tg-a",
       "extra.c1-tg-b",
       "lb-a",
       "lb-b",
       "master.c1-tg-a",
       "master.c1-tg-b",
       "nodes.c1-tg-a",
       "nodes.c1-tg-b",
       "tcp-c1",
       "tls-c1" >>

NameRank(n) == CHOOSE i \in 1..Len(NameOrder) : NameOrder[i] = n

\* the comparison of awstasks.OrderLoadBalancersByName and
\* awstasks.OrderTargetGroupsByName: by fi.StringValue(Name)
LessByName(x, y) == NameRank(StringValue(x.Name)) < NameRank(StringValue(y.Name))

\* insert x into the sorted sequence s after every element not greater than it
RECURSIVE InsertByName(_, _)
InsertByName(s, x) ==
    IF s = <<>> THEN <<x>>
    ELSE IF LessByName(x, s[Len(s)])
         THEN Append(InsertByName(SubSeq(s, 1, Len(s) - 1), x), s[Len(s)])
         ELSE Append(s, x)

\* a list left in the order of the appends
SortStableByNameSkipped(s) == s

\* sort.Stable by name
RECURSIVE SortStableByName(_)
SortStableByName(s) ==
    IF s = <<>> THEN <<>>
    ELSE InsertByName(SortStableByName(SubSeq(s, 1, Len(s) - 1)), s[Len(s)])

(***************************************************************************)
(* Task registry (fi.ModelBuilderContext).  An entry's key is its kind and *)
(* name.                                                                   *)
(***************************************************************************)
TaskKey(task) == <<task.kind, StringValue(task.Name)>>

HasTask(tasks, key) == \E i \in 1..Len(tasks) : TaskKey(tasks[i]) = key

\* c.AddTask: always registers a new entry
AddTask(tasks, task) == Append(tasks, task)

\* c.EnsureTask: registers only if no entry of the same name exists; fails
\* if the registry layer rejects the resource
EnsureTask(tasks, task) ==
    IF TaskKey(task) \in rejected
    THEN [err |-> "cannot add task", Tasks |-> tasks]
    ELSE IF HasTask(tasks, TaskKey(task))
         THEN [err |-> NoError, Tasks |-> tasks]
         ELSE [err |-> NoError, Tasks |-> Append(tasks, task)]


(***************************************************************************)
(* Model builder: the instance group spec (kops.InstanceGroup) and what    *)
(* the collaborators answer for it.  Fields the builder only copies        *)
(* through (image, machine type, monitoring, tenancy, instance metadata,   *)
(* spot duration, suspended processes) are left out.                       *)
(***************************************************************************)
BaseIG(name, role) ==
    [ Name |-> name,
      Role |-> role,
      RootVolumeSize |-> Nil,
      RootVolumeType |-> Nil,
      RootVolumeIops |-> Nil,
      RootVolumeThroughput |-> Nil,
      RootVolumeEncryption |-> Nil,
      RootVolumeEncryptionKey |-> Nil,
      RootVolumeDeleteOnTermination |-> Nil,
      SecurityGroupOverride |-> Nil,
      AdditionalSecurityGroups |-> <<>>,
      Volumes |-> <<>>,
      MaxPrice |-> Nil,
      MixedInstancesPolicy |-> Nil,
      AssociatePublicIP |-> Nil,
      MinSize |-> Nil,
      MaxSize |-> Nil,
      ExternalLoadBalancers |-> <<>> ]

\* an entry of ig.Spec.Volumes
VolumeSpec(device, type, iops, throughput) ==
    [ Device |-> device, Type |-> type, Iops |-> iops, Throughput |-> throughput,
      Size |-> 20, Key |-> Nil, Encrypted |-> Nil, DeleteOnTermination |-> Nil ]

SubnetTypePublic == "Public"
SubnetTypeUtility == "Utility"
SubnetTypePrivate == "Private"

\* the collaborators' answers for one instance group: the launch-template
\* policy, the hybrid policy, the subnets GatherSubnets finds and the
\* collaborator calls that fail
BaseCollab ==
    [ UseLaunchTemplate |-> FALSE,
      Hybrid |-> FALSE,
      Subnets |-> <<[Name |-> "subnet-1", Type |-> SubnetTypePublic]>>,
      fails |-> {} ]

Collaborators ==
    {"LinkToIAMInstanceProfile", "LinkToSSHKey", "ResourceNodeUp", "GatherSubnets",
     "CloudTagsForInstanceGroup"}

BaseCluster ==
    [ LoadBalancerClass |-> "Classic",      \* b.APILoadBalancerClass()
      UseLoadBalancerForAPI |-> TRUE,       \* b.UseLoadBalancerForAPI()
      SSLCertificate |-> "",                \* Spec.API.LoadBalancer.SSLCertificate
      AdditionalSecurityGroups |-> <<>>,    \* Spec.API.LoadBalancer.AdditionalSecurityGroups
      UseSSHKey |-> TRUE ]                  \* b.UseSSHKey()

\* featureflag.EnableLaunchTemplates and the spec fields together: the
\* per-instance-group launch-template policy
UseLaunchTemplate(co) == co.UseLaunchTemplate

\* spotinstmodel.HybridInstanceGroup
HybridInstanceGroup(co) == co.Hybrid

\* b.GatherSubnets: the subnets of the instance group, an error if there is
\* none or one does not resolve
GatherSubnets(co) ==
    IF "GatherSubnets" \in co.fails \/ co.Subnets = <<>>
    THEN [err |-> "subnet not found", subnets |-> <<>>]
    ELSE [err |-> NoError, subnets |-> co.Subnets]

\* b.CloudTagsForInstanceGroup
CloudTagsForInstanceGroup(ig, co) ==
    IF "CloudTagsForInstanceGroup" \in co.fails
    THEN [err |-> "tags", tags |-> Nil]
    ELSE [err |-> NoError, tags |-> Ptr(ig.Name)]

(***************************************************************************)
(* buildLaunchConfigurationTask.  The result carries the error, the task,  *)
(* the registry and the instance group as the call leaves them.            *)
(***************************************************************************)
LaunchResult(err, task, tasks, ig) ==
    [err |-> err, task |-> task, Tasks |-> tasks, ig |-> ig]

\* the security group loops registering with AddTask
RECURSIVE EnsureSecurityGroupsAdd(_, _, _, _)
EnsureSecurityGroupsAdd(tasks, ids, prefix, sgs) ==
    IF ids = <<>>
    THEN [err |-> NoError, Tasks |-> tasks, sgs |-> sgs]
    ELSE LET sgTask == [ kind |-> "SecurityGroup",
                         ID |-> Ptr(Head(ids)),
                         Name |-> Ptr(prefix \o Head(ids)),
                         Shared |-> Ptr(TRUE) ]
         IN  EnsureSecurityGroupsAdd(AddTask(tasks, sgTask), Tail(ids), prefix,
                                     Append(sgs, sgTask))

\* lines 761-772 and 788-799: one shared security group task per id, each
\* registered with EnsureTask and appended to the launch task's groups
RECURSIVE EnsureSecurityGroups(_, _, _, _)
EnsureSecurityGroups(tasks, ids, prefix, sgs) ==
    IF ids = <<>>
    THEN [err |-> NoError, Tasks |-> tasks, sgs |-> sgs]
    ELSE LET sgTask == [ kind |-> "SecurityGroup",
                         ID |-> Ptr(Head(ids)),
                         Name |-> Ptr(prefix \o Head(ids)),
                         Shared |-> Ptr(TRUE) ]
             r == EnsureTask(tasks, sgTask)
         IN  IF r.err # NoError
             THEN [err |-> r.err, Tasks |-> r.Tasks, sgs |-> sgs]
             ELSE EnsureSecurityGroups(r.Tasks, Tail(ids), prefix, Append(sgs, sgTask))

\* lines 803-820 with the else branch of line 818 left out
NormalizeVolumeKeepIops(x) ==
    LET x1 == IF x.Type = "" THEN [x EXCEPT !.Type = DefaultVolumeType] ELSE x
    IN  IF x1.Type = "io1" \/ x1.Type = "io2"
        THEN IF x1.Iops = Nil THEN [x1 EXCEPT !.Iops = Ptr(DefaultVolumeIonIops)] ELSE x1
        ELSE IF x1.Type = "gp3"
             THEN LET x2 == IF x1.Iops = Nil
                            THEN [x1 EXCEPT !.Iops = Ptr(DefaultVolumeGp3Iops)] ELSE x1
                  IN  IF x2.Throughput = Nil
                      THEN [x2 EXCEPT !.Throughput = Ptr(DefaultVolumeGp3Throughput)] ELSE x2
             ELSE x1

\* lines 803-820: the entry of ig.Spec.Volumes as the loop body leaves it
NormalizeVolume(x) ==
    LET x1 == IF x.Type = "" THEN [x EXCEPT !.Type = DefaultVolumeType] ELSE x
    IN  IF x1.Type = "io1" \/ x1.Type = "io2"
        THEN IF x1.Iops = Nil THEN [x1 EXCEPT !.Iops = Ptr(DefaultVolumeIonIops)] ELSE x1
        ELSE IF x1.Type = "gp3"
             THEN LET x2 == IF x1.Iops = Nil
                            THEN [x1 EXCEPT !.Iops = Ptr(DefaultVolumeGp3Iops)] ELSE x1
                  IN  IF x2.Throughput = Nil
                      THEN [x2 EXCEPT !.Throughput = Ptr(DefaultVolumeGp3Throughput)] ELSE x2
             ELSE [x1 EXCEPT !.Iops = Nil]

\* lines 821-838: the block device mapping built from the normalized entry
BlockDeviceMapping(x) ==
    [ DeviceName |-> Ptr(x.Device),
      EbsDeleteOnTermination |->
          Ptr(IF x.DeleteOnTermination # Nil THEN BoolValue(x.DeleteOnTermination)
              ELSE DefaultVolumeDeleteOnTermination),
      EbsEncrypted |->
          Ptr(IF x.Encrypted # Nil THEN BoolValue(x.Encrypted) ELSE DefaultVolumeEncryption),
      EbsKmsKey |-> x.Key,
      EbsVolumeIops |-> x.Iops,
      EbsVolumeSize |-> Ptr(x.Size),
      EbsVolumeThroughput |-> x.Throughput,
      EbsVolumeType |-> Ptr(x.Type) ]

\* lines 775-781: the root volume iops of the launch configuration
RootVolumeIopsOf(volumeType, ig) ==
    IF volumeType = "io1" \/ volumeType = "io2"
    THEN IF Int32Value(ig.RootVolumeIops) < 100
         THEN Ptr(DefaultVolumeIonIops)
         ELSE Ptr(Int32Value(ig.RootVolumeIops))
    ELSE Nil

\* an associate-public-IP value that follows the spec's explicit value in a
\* private subnet too
AssociatePublicIPOfExplicit(subnets, ig) ==
    IF ig.AssociatePublicIP # Nil THEN ig.AssociatePublicIP
    ELSE IF subnets[1].Type = SubnetTypePrivate THEN Ptr(FALSE) ELSE Ptr(TRUE)

\* lines 865-873: the associate-public-IP value from the first subnet
AssociatePublicIPOf(subnets, ig) ==
    IF subnets[1].Type \in {SubnetTypePublic, SubnetTypeUtility}
    THEN IF ig.AssociatePublicIP # Nil THEN ig.AssociatePublicIP ELSE Ptr(TRUE)
    ELSE IF subnets[1].Type = SubnetTypePrivate
         THEN Ptr(FALSE)
         ELSE Nil

\* lines 841-875: the SSH key, the user data, the spot price and the public
\* IP, after the loops; ig is the instance group as the volume loop left it
LaunchConfigurationTail(tasks, ig, co, t) ==
    IF Cluster.UseSSHKey /\ "LinkToSSHKey" \in co.fails
    THEN LaunchResult("ssh key", Nil, tasks, ig) ELSE
    IF "ResourceNodeUp" \in co.fails
    THEN LaunchResult("bootstrap script", Nil, tasks, ig) ELSE
    IF GatherSubnets(co).err # NoError
    THEN LaunchResult(GatherSubnets(co).err, Nil, tasks, ig) ELSE
    LaunchResult(NoError,
        [t EXCEPT !.SSHKey = IF Cluster.UseSSHKey THEN Ptr("ssh-key") ELSE Nil,
                  !.UserData = Ptr(ig.Name),
                  !.SpotPrice = IF StringValue(ig.MaxPrice) # ""
                                THEN StringValue(ig.MaxPrice) ELSE "",
                  !.AssociatePublicIP = AssociatePublicIPOf(GatherSubnets(co).subnets, ig)],
        tasks, ig)

\* lines 801-839: the volume loop, which writes each entry of ig.Spec.Volumes
\* back and appends its block device mapping
LaunchConfigurationVolumes(tasks, ig, co, t) ==
    LaunchConfigurationTail(
        tasks,
        [ig EXCEPT !.Volumes = [i \in 1..Len(ig.Volumes) |-> NormalizeVolume(ig.Volumes[i])]],
        co,
        [t EXCEPT !.BlockDeviceMappings =
            [i \in 1..Len(ig.Volumes) |->
                BlockDeviceMapping(NormalizeVolume(ig.Volumes[i]))]])

\* lines 787-799: after the additional security groups, add being what the
\* loop over them returned
LaunchConfigurationAdditionalGroups(ig, co, t, add) ==
    IF add.err # NoError THEN LaunchResult(add.err, Nil, add.Tasks, ig) ELSE
    LaunchConfigurationVolumes(add.Tasks, ig, co, [t EXCEPT !.SecurityGroups = add.sgs])

\* lines 759-786: after the security groups of the network load balancer, nlb
\* being what the loop over them returned
LaunchConfigurationNlbGroups(ig, co, volumeType, t, nlb) ==
    IF nlb.err # NoError THEN LaunchResult(nlb.err, Nil, nlb.Tasks, ig) ELSE
    LaunchConfigurationAdditionalGroups(
        ig, co,
        [t EXCEPT !.SecurityGroups = nlb.sgs,
                  !.RootVolumeIops = RootVolumeIopsOf(volumeType, ig)],
        EnsureSecurityGroups(nlb.Tasks, ig.AdditionalSecurityGroups, "", nlb.sgs))

\* lines 699-748: the launch configuration as first constructed, size being
\* the default volume size of the role
LaunchConfigurationBase(name, ig, volumeType, size) ==
    [ kind |-> "LaunchConfiguration",
      Name |-> Ptr(name),
      IAMInstanceProfile |-> Ptr(ig.Name),
      RootVolumeDeleteOnTermination |->
          Ptr(IF ig.RootVolumeDeleteOnTermination # Nil
              THEN BoolValue(ig.RootVolumeDeleteOnTermination)
              ELSE DefaultVolumeDeleteOnTermination),
      RootVolumeSize |->
          Ptr(IF Int32Value(ig.RootVolumeSize) > 0
              THEN Int32Value(ig.RootVolumeSize) ELSE size),
      RootVolumeType |-> Ptr(volumeType),
      RootVolumeEncryption |->
          Ptr(IF ig.RootVolumeEncryption # Nil
              THEN BoolValue(ig.RootVolumeEncryption) ELSE DefaultVolumeEncryption),
      RootVolumeIops |-> Nil,
      SecurityGroups |->
          << IF ig.SecurityGroupOverride # Nil
             THEN [ kind |-> "SecurityGroup",
                    ID |-> ig.SecurityGroupOverride,
                    Name |-> Ptr(StringValue(ig.SecurityGroupOverride) \o "-" \o ig.Role),
                    Shared |-> Ptr(TRUE) ]
             ELSE LinkToSecurityGroup(ig.Role) >>,
      BlockDeviceMappings |-> <<>>,
      SSHKey |-> Nil,
      UserData |-> Nil,
      SpotPrice |-> "",
      AssociatePublicIP |-> Nil ]

\* lines 703-706
RootVolumeTypeOf(ig) ==
    IF StringValue(ig.RootVolumeType) = ""
    THEN DefaultVolumeType ELSE StringValue(ig.RootVolumeType)

\* lines 695-698: the default volume size is asked for first, and its error
\* returned, whatever the spec sets
VolumeSizePolicy(ig) == DefaultInstanceGroupVolumeSize(ig.Role)

BuildLaunchConfigurationTask(tasks, name, ig, co) ==
    IF VolumeSizePolicy(ig).err # NoError
    THEN LaunchResult(VolumeSizePolicy(ig).err, Nil, tasks, ig) ELSE
    IF "LinkToIAMInstanceProfile" \in co.fails
    THEN LaunchResult("unable to find IAM profile link", Nil, tasks, ig) ELSE
    LaunchConfigurationNlbGroups(
        ig, co, RootVolumeTypeOf(ig),
        LaunchConfigurationBase(name, ig, RootVolumeTypeOf(ig), VolumeSizePolicy(ig).size),
        IF ig.Role = InstanceGroupRoleMaster /\ Cluster.LoadBalancerClass = "Network"
        THEN EnsureSecurityGroups(tasks, Cluster.AdditionalSecurityGroups, "nlb-",
                 LaunchConfigurationBase(name, ig, RootVolumeTypeOf(ig),
                                         VolumeSizePolicy(ig).size).SecurityGroups)
        ELSE [ err |-> NoError, Tasks |-> tasks,
               sgs |-> LaunchConfigurationBase(name, ig, RootVolumeTypeOf(ig),
                                               VolumeSizePolicy(ig).size).SecurityGroups ])

(***************************************************************************)
(* buildLaunchTemplateTask.                                                *)
(***************************************************************************)
\* the spot price copied from the launch configuration whatever the policy
TemplateSpotPriceCopied(spec, lc) == Ptr(lc.SpotPrice)

\* lines 657-665: the spot price of the template
TemplateSpotPrice(spec, lc) ==
    IF spec.MixedInstancesPolicy = Nil THEN Ptr(lc.SpotPrice) ELSE Ptr("")

\* lines 635-665: the template copied from the launch configuration lc
LaunchTemplateBase(name, spec, lc, tags) ==
    [ kind |-> "LaunchTemplate",
      Name |-> Ptr(name),
      AssociatePublicIP |-> lc.AssociatePublicIP,
      BlockDeviceMappings |-> lc.BlockDeviceMappings,
      IAMInstanceProfile |-> lc.IAMInstanceProfile,
      RootVolumeSize |-> lc.RootVolumeSize,
      RootVolumeIops |-> lc.RootVolumeIops,
      RootVolumeType |-> lc.RootVolumeType,
      RootVolumeEncryption |-> lc.RootVolumeEncryption,
      RootVolumeThroughput |-> Nil,
      SSHKey |-> lc.SSHKey,
      SecurityGroups |-> lc.SecurityGroups,
      Tags |-> tags,
      UserData |-> lc.UserData,
      SpotPrice |-> TemplateSpotPrice(spec, lc),
      RootVolumeKmsKey |->
          IF BoolValue(spec.RootVolumeEncryption) /\ spec.RootVolumeEncryptionKey # Nil
          THEN spec.RootVolumeEncryptionKey ELSE Ptr("") ]

\* the template without the gp3 floors
LaunchTemplateGp3Copied(spec, lt) == lt

\* lines 677-688: the gp3 floors of the template
LaunchTemplateGp3(spec, lt) ==
    IF StringValue(lt.RootVolumeType) = "gp3"
    THEN [lt EXCEPT
           !.RootVolumeIops =
               IF Int32Value(spec.RootVolumeIops) < 3000
               THEN Ptr(DefaultVolumeGp3Iops)
               ELSE Ptr(Int32Value(spec.RootVolumeIops)),
           !.RootVolumeThroughput =
               IF Int32Value(spec.RootVolumeThroughput) < 125
               THEN Ptr(DefaultVolumeGp3Throughput)
               ELSE Ptr(Int32Value(spec.RootVolumeThroughput))]
    ELSE lt

\* lines 623-689, r being what buildLaunchConfigurationTask returned
LaunchTemplateFrom(name, co, r) ==
    IF r.err # NoError THEN LaunchResult(r.err, Nil, r.Tasks, r.ig) ELSE
    IF CloudTagsForInstanceGroup(r.ig, co).err # NoError
    THEN LaunchResult("error building cloud tags", Nil, r.Tasks, r.ig) ELSE
    LaunchResult(NoError,
        LaunchTemplateGp3(r.ig,
            LaunchTemplateBase(name, r.ig, r.task, CloudTagsForInstanceGroup(r.ig, co).tags)),
        r.Tasks, r.ig)

BuildLaunchTemplateTask(tasks, name, ig, co) ==
    LaunchTemplateFrom(name, co, BuildLaunchConfigurationTask(tasks, name, ig, co))

(***************************************************************************)
(* buildAutoScalingGroupTask.  The result carries the error, the task and  *)
(* the registry as the call leaves them.                                   *)
(***************************************************************************)
GroupResult(err, task, tasks) == [err |-> err, task |-> task, Tasks |-> tasks]

\* lines 962-967: the task of an external load balancer
ExternalLoadBalancer(extLB) ==
    [ kind |-> "ClassicLoadBalancer",
      Name |-> extLB.LoadBalancerName,
      LoadBalancerName |-> extLB.LoadBalancerName,
      Shared |-> Ptr(TRUE) ]

\* lines 977-981: the task of an external target group
ExternalTargetGroup(name, extLB, targetGroupName) ==
    [ kind |-> "TargetGroup",
      Name |-> Ptr(name \o "-" \o targetGroupName),
      ARN |-> extLB.TargetGroupARN,
      Shared |-> Ptr(TRUE) ]

\* lines 961-985: the external load balancers and target groups of the spec.
\* The error EnsureTask returns for a load balancer is dropped (line 969).
RECURSIVE AttachExternal(_, _, _, _, _)
AttachExternal(tasks, ext, name, lbs, tgs) ==
    IF ext = <<>>
    THEN [err |-> NoError, Tasks |-> tasks, lbs |-> lbs, tgs |-> tgs]
    ELSE
    LET extLB == Head(ext)
        tasks1 == IF extLB.LoadBalancerName # Nil
                  THEN EnsureTask(tasks, ExternalLoadBalancer(extLB)).Tasks ELSE tasks
        lbs1 == IF extLB.LoadBalancerName # Nil
                THEN Append(lbs, ExternalLoadBalancer(extLB)) ELSE lbs
        parsed == GetTargetGroupNameFromARN(StringValue(extLB.TargetGroupARN))
    IN
    IF extLB.TargetGroupARN = Nil
    THEN AttachExternal(tasks1, Tail(ext), name, lbs1, tgs) ELSE
    IF parsed.err # NoError
    THEN [err |-> parsed.err, Tasks |-> tasks1, lbs |-> lbs1, tgs |-> tgs]
    ELSE AttachExternal(AddTask(tasks1, ExternalTargetGroup(name, extLB, parsed.name)),
                        Tail(ext), name, lbs1,
                        Append(tgs, ExternalTargetGroup(name, extLB, parsed.name)))

\* a condition that attaches by role whatever the feature flags say
AttachesByRoleAlways(co) == TRUE

\* lines 943-944: false when Spotinst manages the attachments itself
AttachesByRole(co) ==
    \/ ~featureflag.Spotinst
    \/ (featureflag.SpotinstHybrid /\ ~HybridInstanceGroup(co))

\* lines 945-958: the role-based load balancers
RoleLoadBalancers(ig, co) ==
    IF ~AttachesByRole(co) THEN <<>> ELSE
    (IF /\ Cluster.UseLoadBalancerForAPI
        /\ ig.Role = InstanceGroupRoleMaster
        /\ Cluster.LoadBalancerClass # "Network"
     THEN <<LinkToCLB("api")>> ELSE <<>>)
    \o (IF ig.Role = InstanceGroupRoleBastion THEN <<LinkToCLB("bastion")>> ELSE <<>>)

\* lines 945-950: the role-based target groups
RoleTargetGroups(ig, co) ==
    IF /\ AttachesByRole(co)
       /\ Cluster.UseLoadBalancerForAPI
       /\ ig.Role = InstanceGroupRoleMaster
       /\ Cluster.LoadBalancerClass = "Network"
    THEN <<LinkToTargetGroup("tcp")>>
         \o (IF Cluster.SSLCertificate # "" THEN <<LinkToTargetGroup("tls")>> ELSE <<>>)
    ELSE <<>>

\* a capacity bound whose fallback is 1 for every role
CapacityBoundOne(explicit, role) ==
    IF explicit # Nil THEN explicit ELSE Ptr(1)

\* lines 898-909: a capacity bound, explicit being the spec's value
CapacityBound(explicit, role) ==
    IF explicit # Nil THEN explicit
    ELSE IF role = InstanceGroupRoleNode THEN Ptr(2) ELSE Ptr(1)

\* lines 881-935 and 986-1002: the group task, given the gathered subnets,
\* the tags and the attached load balancers and target groups
AutoscalingGroup(name, ig, subnets, tags, lbs, tgs) ==
    [ kind |-> "AutoscalingGroup",
      Name |-> Ptr(name),
      MinSize |-> CapacityBound(ig.MinSize, ig.Role),
      MaxSize |-> CapacityBound(ig.MaxSize, ig.Role),
      Subnets |-> [i \in 1..Len(subnets) |-> subnets[i].Name],
      Tags |-> tags,
      LoadBalancers |-> SortStableByName(lbs),
      TargetGroups |-> SortStableByName(tgs),
      LaunchTemplate |-> Nil,
      LaunchConfiguration |-> Nil,
      MixedInstanceOverrides |->
          IF ig.MixedInstancesPolicy # Nil THEN ig.MixedInstancesPolicy[1].Instances ELSE <<>>,
      MixedSpotMaxPrice |-> IF ig.MixedInstancesPolicy # Nil THEN ig.MaxPrice ELSE Nil ]

\* lines 961-1002, ext being what the loop over the external load balancers
\* returned
GroupTaskFrom(name, ig, co, ext) ==
    IF ext.err # NoError THEN GroupResult(ext.err, Nil, ext.Tasks) ELSE
    GroupResult(NoError,
        AutoscalingGroup(name, ig, GatherSubnets(co).subnets,
                         CloudTagsForInstanceGroup(ig, co).tags, ext.lbs, ext.tgs),
        ext.Tasks)

BuildAutoScalingGroupTask(tasks, name, ig, co) ==
    IF GatherSubnets(co).err # NoError
    THEN GroupResult(GatherSubnets(co).err, Nil, tasks) ELSE
    IF Len(GatherSubnets(co).subnets) = 0
    THEN GroupResult("could not determine any subnets", Nil, tasks) ELSE
    IF CloudTagsForInstanceGroup(ig, co).err # NoError
    THEN GroupResult("error building cloud tags", Nil, tasks) ELSE
    GroupTaskFrom(name, ig, co,
        AttachExternal(tasks, ig.ExternalLoadBalancers, name,
                       RoleLoadBalancers(ig, co), RoleTargetGroups(ig, co)))

(***************************************************************************)
(* Build: one action per pass of the loop over b.InstanceGroups, and one   *)
(* for the return after the last instance group.  The result of a pass     *)
(* carries the error, the registry and the instance group as it leaves     *)
(* them.                                                                   *)
(***************************************************************************)
PassResult(err, tasks, ig) == [err |-> err, Tasks |-> tasks, ig |-> ig]

\* lines 607-612 binding the group to both launch references
BindLaunchTaskBoth(co, tsk, ref) ==
    [tsk EXCEPT !.LaunchTemplate = Ptr(ref), !.LaunchConfiguration = Ptr(ref)]

\* lines 607-612: the group task bound to the launch task, ref being the
\* registry entry of the launch task
BindLaunchTask(co, tsk, ref) ==
    IF UseLaunchTemplate(co)
    THEN [tsk EXCEPT !.LaunchTemplate = Ptr(ref)]
    ELSE [tsk EXCEPT !.LaunchConfiguration = Ptr(ref)]

\* lines 603-613, group being what buildAutoScalingGroupTask returned
PassAfterGroup(co, ig, ref, group) ==
    IF group.err # NoError THEN PassResult(group.err, group.Tasks, ig) ELSE
    PassResult(NoError, AddTask(group.Tasks, BindLaunchTask(co, group.task, ref)), ig)

\* lines 597-613, launch being what the launch task builder returned
PassAfterLaunch(name, co, launch) ==
    IF launch.err # NoError THEN PassResult(launch.err, launch.Tasks, launch.ig) ELSE
    PassAfterGroup(co, launch.ig, Len(launch.Tasks) + 1,
        BuildAutoScalingGroupTask(AddTask(launch.Tasks, launch.task), name, launch.ig, co))

\* lines 588-613: the body of the loop for one instance group
BuildPass(tasks, ig, co) ==
    PassAfterLaunch(AutoscalingGroupName(ig), co,
        IF UseLaunchTemplate(co)
        THEN BuildLaunchTemplateTask(tasks, AutoscalingGroupName(ig), ig, co)
        ELSE BuildLaunchConfigurationTask(tasks, AutoscalingGroupName(ig), ig, co))

\* the state a pass of the loop leaves
AfterPass(r) ==
    /\ InstanceGroups' = [InstanceGroups EXCEPT ![pos] = r.ig]
    /\ Tasks' = r.Tasks
    /\ IF r.err # NoError
       THEN /\ buildErr' = r.err
            /\ pc' = "returned"
            /\ pos' = pos
       ELSE /\ pos' = pos + 1
            /\ UNCHANGED <<pc, buildErr>>

\* lines 581-586: the instance group is skipped
BuildSkipHybrid ==
    /\ pc = "loop"
    /\ pos <= Len(InstanceGroups)
    /\ featureflag.SpotinstHybrid /\ HybridInstanceGroup(collab[pos])
    /\ pos' = pos + 1
    /\ UNCHANGED <<InstanceGroups, inputVars, Tasks, pc, buildErr, adapterVars>>

\* lines 588-613: the launch task and the group task of one instance group
BuildInstanceGroup ==
    /\ pc = "loop"
    /\ pos <= Len(InstanceGroups)
    /\ ~(featureflag.SpotinstHybrid /\ HybridInstanceGroup(collab[pos]))
    /\ AfterPass(BuildPass(Tasks, InstanceGroups[pos], collab[pos]))
    /\ UNCHANGED <<inputVars, adapterVars>>

\* line 617: every instance group is done
BuildReturn ==
    /\ pc = "loop"
    /\ pos > Len(InstanceGroups)
    /\ pc' = "returned"
    /\ buildErr' = NoError
    /\ UNCHANGED <<InstanceGroups, inputVars, Tasks, pos, adapterVars>>

(***************************************************************************)
(* The inputs of a build pass.  Each family varies one group of fields of  *)
(* the instance group specs and of the collaborators' answers over the     *)
(* values that make the code's branches differ, the rest being as in       *)
(* BaseIG, BaseCollab and BaseCluster.                                      *)
(***************************************************************************)
\* instance group names and roles by position in b.InstanceGroups
IGNames == <<"master", "nodes", "bastion", "extra">>
IGRoles == <<InstanceGroupRoleMaster, InstanceGroupRoleNode, InstanceGroupRoleBastion,
             InstanceGroupRoleNode>>

Roles == {InstanceGroupRoleMaster, InstanceGroupRoleNode, InstanceGroupRoleBastion,
          RoleWithoutPolicy}

NoFlags == [Spotinst |-> FALSE, SpotinstHybrid |-> FALSE]

\* the state in which Build is called
Start(igs, cos, cluster, flags, rej) ==
    /\ InstanceGroups = igs
    /\ inputSpecs = igs
    /\ collab = cos
    /\ Cluster = cluster
    /\ featureflag = flags
    /\ rejected = rej
    /\ Tasks = <<>>
    /\ pos = 1
    /\ pc = "loop"
    /\ buildErr = NoError

RootVolumeTypes == {Nil, Ptr("gp2"), Ptr("gp3"), Ptr("io1"), Ptr("io2")}
RootVolumeIopsValues == {Nil, Ptr(50), Ptr(100), Ptr(2999), Ptr(3000), Ptr(4000)}
RootVolumeThroughputValues == {Nil, Ptr(100), Ptr(125), Ptr(200)}
RootVolumeSizes == {Nil, Ptr(0), Ptr(50)}

\* the root volume's type, iops and throughput
InitRootVolume ==
    \E type \in RootVolumeTypes, iops \in RootVolumeIopsValues,
       thr \in RootVolumeThroughputValues, lt \in BOOLEAN :
        Start(<<[BaseIG("nodes", InstanceGroupRoleNode) EXCEPT
                    !.RootVolumeType = type,
                    !.RootVolumeIops = iops,
                    !.RootVolumeThroughput = thr]>>,
              <<[BaseCollab EXCEPT !.UseLaunchTemplate = lt]>>,
              BaseCluster, NoFlags, {})

\* the role and the root volume's size
InitVolumeSize ==
    \E role \in Roles, size \in RootVolumeSizes, lt \in BOOLEAN :
        Start(<<[BaseIG("nodes", role) EXCEPT !.RootVolumeSize = size]>>,
              <<[BaseCollab EXCEPT !.UseLaunchTemplate = lt]>>,
              BaseCluster, NoFlags, {})

DeviceNames == <<"/dev/xvdb", "/dev/xvdc", "/dev/xvdd", "/dev/xvde">>
VolumeTypes == {"", "gp3", "io1", "io2", "st1"}
VolumeIopsValues == {Nil, Ptr(50), Ptr(4000)}
VolumeThroughputValues == {Nil, Ptr(100), Ptr(200)}

VolumeChoices ==
    [Type : VolumeTypes, Iops : VolumeIopsValues, Throughput : VolumeThroughputValues]

\* the additional volumes
InitVolumes ==
    \E vs \in SeqsUpTo(VolumeChoices, MaxVolumes), lt \in BOOLEAN :
        Start(<<[BaseIG("nodes", InstanceGroupRoleNode) EXCEPT
                    !.Volumes = [i \in 1..Len(vs) |->
                                    VolumeSpec(DeviceNames[i], vs[i].Type, vs[i].Iops,
                                               vs[i].Throughput)]]>>,
              <<[BaseCollab EXCEPT !.UseLaunchTemplate = lt]>>,
              BaseCluster, NoFlags, {})

\* an external reference listed by an instance group: an additional security
\* group or an external load balancer entry
SecurityGroupRef(id) ==
    [field |-> "sg", id |-> id, entry |-> [LoadBalancerName |-> Nil, TargetGroupARN |-> Nil]]
LoadBalancerRef(lbName, arn) ==
    [field |-> "lb", id |-> "", entry |-> [LoadBalancerName |-> lbName, TargetGroupARN |-> arn]]

RefChoices ==
    { SecurityGroupRef("sg-a"), SecurityGroupRef("sg-b"),
      LoadBalancerRef(Ptr("lb-a"), Nil), LoadBalancerRef(Ptr("lb-b"), Nil),
      LoadBalancerRef(Nil, Ptr(ArnTgA)), LoadBalancerRef(Nil, Ptr(ArnBad)),
      LoadBalancerRef(Ptr("lb-a"), Ptr(ArnTgB)) }

\* the references of the pass, those of the first instance group first
RefLists(n) ==
    { refs \in SeqsUpTo((1..n) \X RefChoices, MaxRefs) :
        \A i \in 1..(Len(refs) - 1) : refs[i][1] <= refs[i + 1][1] }

RECURSIVE RefsOf(_, _, _)
RefsOf(refs, k, field) ==
    IF refs = <<>> THEN <<>>
    ELSE LET r == Head(refs)
             rest == RefsOf(Tail(refs), k, field)
         IN  IF r[1] = k /\ r[2].field = field
             THEN <<IF field = "sg" THEN r[2].id ELSE r[2].entry>> \o rest
             ELSE rest

RejectedChoices ==
    { {}, {<<"SecurityGroup", "sg-a">>}, {<<"ClassicLoadBalancer", "lb-a">>} }

NetworkCluster ==
    [BaseCluster EXCEPT !.LoadBalancerClass = "Network",
                        !.AdditionalSecurityGroups = <<"sg-a">>]

\* several instance groups and their shared external references
InitReferences ==
    \E n \in 1..MaxIGs :
    \E refs \in RefLists(n), ltFirst \in BOOLEAN, rej \in RejectedChoices :
        Start([k \in 1..n |->
                  [BaseIG(IGNames[k], IGRoles[k]) EXCEPT
                      !.AdditionalSecurityGroups = RefsOf(refs, k, "sg"),
                      !.ExternalLoadBalancers = RefsOf(refs, k, "lb")]],
              [k \in 1..n |->
                  [BaseCollab EXCEPT !.UseLaunchTemplate = ((k % 2 = 1) = ltFirst)]],
              NetworkCluster, NoFlags, rej)

\* the collaborator calls that fail
InitFailures ==
    \E fails \in {{}} \cup {{f} : f \in Collaborators}, lt \in BOOLEAN, ssh \in BOOLEAN,
       subnets \in {<<>>, BaseCollab.Subnets} :
        Start(<<[BaseIG("nodes", InstanceGroupRoleNode) EXCEPT
                    !.AdditionalSecurityGroups = <<"sg-b">>,
                    !.Volumes = <<VolumeSpec(DeviceNames[1], "", Ptr(50), Nil)>>]>>,
              <<[BaseCollab EXCEPT !.UseLaunchTemplate = lt, !.fails = fails,
                                   !.Subnets = subnets]>>,
              [BaseCluster EXCEPT !.UseSSHKey = ssh], NoFlags, {})

MixedChoices == {Nil, Ptr([Instances |-> <<"m5.large", "m5.xlarge">>])}
MaxPrices == {Nil, Ptr(""), Ptr("0.5")}

\* the spot price, the mixed-instances policy and the root volume encryption
InitSpot ==
    \E mixed \in MixedChoices, price \in MaxPrices, lt \in BOOLEAN,
       enc \in {Nil, Ptr(TRUE), Ptr(FALSE)}, key \in {Nil, Ptr("kms-key")} :
        Start(<<[BaseIG("nodes", InstanceGroupRoleNode) EXCEPT
                    !.MixedInstancesPolicy = mixed,
                    !.MaxPrice = price,
                    !.RootVolumeEncryption = enc,
                    !.RootVolumeEncryptionKey = key]>>,
              <<[BaseCollab EXCEPT !.UseLaunchTemplate = lt]>>,
              BaseCluster, NoFlags, {})

ClusterChoices ==
    { BaseCluster,
      [BaseCluster EXCEPT !.UseLoadBalancerForAPI = FALSE],
      [BaseCluster EXCEPT !.LoadBalancerClass = "Network"],
      [BaseCluster EXCEPT !.LoadBalancerClass = "Network", !.SSLCertificate = "arn:cert"] }

\* the Spotinst feature flags, the hybrid instance groups and the API load
\* balancer of the cluster
InitFlags ==
    \E n \in 1..MaxIGs :
    \E flags \in [Spotinst : BOOLEAN, SpotinstHybrid : BOOLEAN],
       hybrid \in SUBSET (1..n), cluster \in ClusterChoices :
        Start([k \in 1..n |-> BaseIG(IGNames[k], IGRoles[k])],
              [k \in 1..n |-> [BaseCollab EXCEPT !.Hybrid = (k \in hybrid)]],
              cluster, flags, {})

SubnetTypes == {SubnetTypePublic, SubnetTypeUtility, SubnetTypePrivate}
SubnetNames == <<"subnet-1", "subnet-2">>

\* the gathered subnets, the first one first, and the spec's explicit
\* associate-public-IP value
InitPublicIP ==
    \E types \in SeqsUpTo(SubnetTypes, 2) \ {<<>>},
       explicit \in {Nil, Ptr(TRUE), Ptr(FALSE)}, lt \in BOOLEAN :
        Start(<<[BaseIG("nodes", InstanceGroupRoleNode) EXCEPT
                    !.AssociatePublicIP = explicit]>>,
              <<[BaseCollab EXCEPT
                    !.UseLaunchTemplate = lt,
                    !.Subnets = [i \in 1..Len(types) |->
                                    [Name |-> SubnetNames[i], Type |-> types[i]]]]>>,
              BaseCluster, NoFlags, {})

MinSizes == {Nil, Ptr(0), Ptr(3)}
MaxSizes == {Nil, Ptr(0), Ptr(5)}

\* the role and the spec's capacity bounds
InitCapacity ==
    \E k \in 1..3, min \in MinSizes, max \in MaxSizes, lt \in BOOLEAN :
        Start(<<[BaseIG(IGNames[k], IGRoles[k]) EXCEPT !.MinSize = min, !.MaxSize = max]>>,
              <<[BaseCollab EXCEPT !.UseLaunchTemplate = lt]>>,
              BaseCluster, NoFlags, {})

\* the entries of ig.Spec.ExternalLoadBalancers of the attachment family
ExternalChoices ==
    { [LoadBalancerName |-> Ptr("a-lb"), TargetGroupARN |-> Nil],
      [LoadBalancerName |-> Ptr("lb-b"), TargetGroupARN |-> Nil],
      [LoadBalancerName |-> Nil, TargetGroupARN |-> Ptr(ArnTgA)],
      [LoadBalancerName |-> Nil, TargetGroupARN |-> Ptr(ArnTgB)] }

\* the role, the Spotinst feature flags, the API load balancer of the cluster
\* and the external load balancers of the spec, in every order
InitAttach ==
    \E k \in 1..3, flags \in [Spotinst : BOOLEAN, SpotinstHybrid : BOOLEAN],
       hybrid \in BOOLEAN, cluster \in ClusterChoices,
       ext \in SeqsUpTo(ExternalChoices, MaxRefs) :
        Start(<<[BaseIG(IGNames[k], IGRoles[k]) EXCEPT !.ExternalLoadBalancers = ext]>>,
              <<[BaseCollab EXCEPT !.Hybrid = hybrid]>>,
              cluster, flags, {})

Init ==
    /\ AdapterInit
    /\ \/ InitRootVolume
       \/ InitVolumeSize
       \/ InitVolumes
       \/ InitReferences
       \/ InitFailures
       \/ InitSpot
       \/ InitFlags
       \/ InitPublicIP
       \/ InitCapacity
       \/ InitAttach

Next == BuildSkipHybrid \/ BuildInstanceGroup \/ BuildReturn

\* one build pass
Spec == Init /\ [][Next]_vars


(***************************************************************************)
(* Specifications.                                                         *)
(***************************************************************************)
\* the builder at rest, for behaviours of the adapter alone
BuilderIdle ==
    /\ InstanceGroups = <<>>
    /\ inputSpecs = <<>>
    /\ collab = <<>>
    /\ Cluster = [LoadBalancerClass |-> "None"]
    /\ featureflag = [Spotinst |-> FALSE, SpotinstHybrid |-> FALSE]
    /\ rejected = {}
    /\ Tasks = <<>>
    /\ pos = 1
    /\ pc = "idle"
    /\ buildErr = NoError

InitAdapter == AdapterInit /\ BuilderIdle

NextAdapter == EgDelete \/ OcDelete \/ LsDelete \/ EgDetach \/ OcDetach \/ LsDetach

\* the provider adapter, one call per behaviour
SpecAdapter == InitAdapter /\ [][NextAdapter]_vars

(***************************************************************************)
(* C1.  Delete on the managed launch spec service.                         *)
(***************************************************************************)
\* some message of the backend error contains "ocean does not exist" in any
\* letter case, whatever form the error has
MessageSaysOceanGone(err) ==
    \/ err.form = "plain" /\ Contains(ToLower(err.msg), OceanGone)
    \/ err.form = "client.Errors"
         /\ \E i \in 1..Len(err.errs) : Contains(ToLower(err.errs[i].Message), OceanGone)

LsDeleteReturned == apc = "returned" /\ variant = "ls" /\ call.op = "Delete"

\* C1 as stated: Delete on the launch spec service returns success whenever
\* the backend error's message contains "ocean does not exist" in any letter
\* case, whatever the form of the error (plain or list), returns every other
\* backend error unchanged, and returns success when the backend succeeds.
C1_AsStated ==
    LsDeleteReturned =>
        deleteRet = IF backendErr = NilErr \/ MessageSaysOceanGone(backendErr)
                    THEN NilErr ELSE backendErr

\* C1 amended: Delete on the launch spec service returns success when the
\* backend succeeds and when the backend error is a client.Errors list one of
\* whose messages contains "ocean does not exist" in any letter case; every
\* other backend error, a plain error included whatever its text, is returned
\* unchanged.
C1_DeleteOceanGone ==
    LsDeleteReturned =>
        deleteRet = IF \/ backendErr = NilErr
                       \/ /\ backendErr.form = "client.Errors"
                          /\ MessageSaysOceanGone(backendErr)
                    THEN NilErr ELSE backendErr

\* a list whose second error carries the message in mixed case was answered
\* with success
C1_Witness ==
    /\ LsDeleteReturned
    /\ backendErr = ClientErrors(<<ClientError(MsgThrottle), ClientError(MsgEmbedded)>>)
    /\ deleteRet = NilErr

(***************************************************************************)
(* Helpers of the claims about a build pass.                               *)
(***************************************************************************)
Returned == pc = "returned"
Succeeded == pc = "returned" /\ buildErr = NoError

TaskIndexes == 1..Len(Tasks)
IsLaunchTask(t) == t.kind \in {"LaunchConfiguration", "LaunchTemplate"}
IsGroupTask(t) == t.kind = "AutoscalingGroup"

\* the position in b.InstanceGroups of the instance group a launch or group
\* task was built for
IGOf(t) ==
    CHOOSE k \in 1..Len(InstanceGroups) :
        AutoscalingGroupName(InstanceGroups[k]) = StringValue(t.Name)

\* a field of a task, nil when the task's type has no such field
Field(t, f) == IF f \in DOMAIN t THEN t[f] ELSE Nil

\* the greater of a requested value and its floor, the floor when unset
Floored(requested, floor) ==
    IF requested = Nil \/ requested[1] < floor THEN Ptr(floor) ELSE requested

\* the type a volume resolves to
ResolvedType(type) == IF type = "" THEN "gp2" ELSE type

IopsTypes == {"io1", "io2", "gp3"}

(***************************************************************************)
(* C2.  Shared security groups and external load balancers are registered  *)
(* once.                                                                   *)
(***************************************************************************)
\* C2: the task registry never holds two entries for the same shared
\* security-group name, nor two for the same external load-balancer name,
\* however often and by however many instance groups the name is listed.
C2_SharedRegisteredOnce ==
    \A i, j \in TaskIndexes :
        /\ i < j
        /\ Tasks[i].kind \in {"SecurityGroup", "ClassicLoadBalancer"}
        => TaskKey(Tasks[i]) # TaskKey(Tasks[j])

\* two instance groups listed the security group sg-a, the pass succeeded and
\* the registry holds it once
C2_Witness ==
    /\ Succeeded
    /\ Len(InstanceGroups) = 2
    /\ \A k \in 1..2 : InstanceGroups[k].AdditionalSecurityGroups = <<"sg-a">>
    /\ Cardinality({i \in TaskIndexes : TaskKey(Tasks[i]) = <<"SecurityGroup", "sg-a">>}) = 1

(***************************************************************************)
(* C3.  Every failure raised during a build pass is reported.              *)
(***************************************************************************)
\* some call made while building instance group k fails, the pass having run
\* through every step for it
SomeCallFails(k) ==
    LET ig == InstanceGroups[k]
        co == collab[k]
    IN  \/ DefaultInstanceGroupVolumeSize(ig.Role).err # NoError
        \/ "LinkToIAMInstanceProfile" \in co.fails
        \/ Cluster.UseSSHKey /\ "LinkToSSHKey" \in co.fails
        \/ "ResourceNodeUp" \in co.fails
        \/ GatherSubnets(co).err # NoError
        \/ "CloudTagsForInstanceGroup" \in co.fails
        \/ \E i \in 1..Len(ig.AdditionalSecurityGroups) :
               <<"SecurityGroup", ig.AdditionalSecurityGroups[i]>> \in rejected
        \/ \E i \in 1..Len(ig.ExternalLoadBalancers) :
               LET extLB == ig.ExternalLoadBalancers[i]
               IN  \/ /\ extLB.LoadBalancerName # Nil
                      /\ <<"ClassicLoadBalancer", extLB.LoadBalancerName[1]>> \in rejected
                   \/ /\ extLB.TargetGroupARN # Nil
                      /\ GetTargetGroupNameFromARN(extLB.TargetGroupARN[1]).err # NoError

Skipped(k) == featureflag.SpotinstHybrid /\ HybridInstanceGroup(collab[k])

\* C3 as stated: when a collaborator call or a registration made while
\* building an instance group fails, Build returns an error; so a Build that
\* reports success had no failing call in any instance group it built.
C3_AsStated ==
    Succeeded => \A k \in 1..Len(InstanceGroups) : ~Skipped(k) => ~SomeCallFails(k)

(***************************************************************************)
(* C4.  The instance group specs are read-only input.                      *)
(***************************************************************************)
\* C4 as stated: after Build every field of every instance group spec,
\* the type, iops and throughput of its additional volumes included, has the
\* value it had before the call.
C4_AsStated == Returned => InstanceGroups = inputSpecs

VolumeSizeError == "no default volume size for role"

\* C6 as stated: building the launch resource of an instance group fails
\* with the volume-size configuration error exactly when its role has no
\* default volume size and its spec sets no positive root volume size; with a
\* positive size in the spec the launch resource carries that size.
C6_AsStated ==
    /\ Returned =>
        ( buildErr = VolumeSizeError
          <=> /\ pos <= Len(InstanceGroups)
              /\ DefaultInstanceGroupVolumeSize(InstanceGroups[pos].Role).err # NoError
              /\ Int32Value(InstanceGroups[pos].RootVolumeSize) <= 0 )
    /\ \A i \in TaskIndexes :
        IsLaunchTask(Tasks[i]) /\ Int32Value(inputSpecs[IGOf(Tasks[i])].RootVolumeSize) > 0
        => Tasks[i].RootVolumeSize = inputSpecs[IGOf(Tasks[i])].RootVolumeSize

(***************************************************************************)
(* C7.  The gp3 floors of the root volume.                                 *)
(***************************************************************************)
RootIsGp3(t) == StringValue(inputSpecs[IGOf(t)].RootVolumeType) = "gp3"

NormalizedAsRoot(m, x) ==
    /\ m.EbsVolumeType = Ptr(ResolvedType(x.Type))
    /\ ResolvedType(x.Type) \in {"io1", "io2"} => m.EbsVolumeIops = Floored(x.Iops, 100)
    /\ ResolvedType(x.Type) = "gp3" =>
           /\ m.EbsVolumeIops = Floored(x.Iops, 3000)
           /\ m.EbsVolumeThroughput = Floored(x.Throughput, 125)
    /\ ResolvedType(x.Type) # "gp3" => m.EbsVolumeThroughput = Nil

\* C8 as stated: each additional block device mapping has the default type
\* when the entry's type is unset; for io1 and io2 iops 100 when the entry's
\* iops is unset or below 100; for gp3 iops 3000 when unset or below 3000 and
\* throughput 125 when unset or below 125; the entry's values otherwise; and
\* no throughput for a type other than gp3.
C8_AsStated ==
    \A i \in TaskIndexes :
        IsLaunchTask(Tasks[i]) =>
            \A v \in 1..Len(Tasks[i].BlockDeviceMappings) :
                NormalizedAsRoot(Tasks[i].BlockDeviceMappings[v],
                                 inputSpecs[IGOf(Tasks[i])].Volumes[v])

(***************************************************************************)
(* C9.  No iops for a volume type that takes none.                         *)
(***************************************************************************)
\* C9: a launch resource carries no root iops when the root volume's
\* resolved type is not io1, io2 or gp3, and no iops in the mapping of an
\* additional volume whose resolved type is not io1, io2 or gp3, whatever
\* iops the spec supplies.
C9_NoStrayIops ==
    \A i \in TaskIndexes :
        IsLaunchTask(Tasks[i]) =>
            LET spec == inputSpecs[IGOf(Tasks[i])]
            IN  /\ ResolvedType(StringValue(spec.RootVolumeType)) \notin IopsTypes
                   => Tasks[i].RootVolumeIops = Nil
                /\ \A v \in 1..Len(spec.Volumes) :
                       ResolvedType(spec.Volumes[v].Type) \notin IopsTypes
                       => Tasks[i].BlockDeviceMappings[v].EbsVolumeIops = Nil

\* a launch resource was built from a spec that supplies 4000 iops for an st1
\* volume and for a volume of unset type: neither mapping carries iops
C9_Witness ==
    \E i \in TaskIndexes :
        /\ IsLaunchTask(Tasks[i])
        /\ Len(Tasks[i].BlockDeviceMappings) = 2
        /\ LET spec == inputSpecs[IGOf(Tasks[i])]
           IN  /\ spec.Volumes[1].Type = "st1" /\ spec.Volumes[1].Iops = Ptr(4000)
               /\ spec.Volumes[2].Type = "" /\ spec.Volumes[2].Iops = Ptr(4000)
        /\ Tasks[i].BlockDeviceMappings[1].EbsVolumeIops = Nil
        /\ Tasks[i].BlockDeviceMappings[2].EbsVolumeIops = Nil

\* a launch resource was built from a spec that supplies 4000 root iops for a
\* gp2 root volume
C9_RootCase ==
    \E i \in TaskIndexes :
        /\ IsLaunchTask(Tasks[i])
        /\ inputSpecs[IGOf(Tasks[i])].RootVolumeType = Ptr("gp2")
        /\ inputSpecs[IGOf(Tasks[i])].RootVolumeIops = Ptr(4000)
        /\ Tasks[i].RootVolumeIops = Nil

(***************************************************************************)
(* C10.  The spot price of a template.                                     *)
(***************************************************************************)
\* C10: a Template-shape launch resource has the empty spot price when its
\* spec has a mixed-instances policy, and the spec's max price (empty when
\* none is set) when it has none; the group task of a spec with a
\* mixed-instances policy carries the spec's max price.
C10_TemplateSpotPrice ==
    \A i \in TaskIndexes :
        LET t == Tasks[i]
            spec == inputSpecs[IGOf(t)]
        IN  /\ t.kind = "LaunchTemplate" =>
                t.SpotPrice = IF spec.MixedInstancesPolicy # Nil
                              THEN Ptr("") ELSE Ptr(StringValue(spec.MaxPrice))
            /\ IsGroupTask(t) /\ spec.MixedInstancesPolicy # Nil =>
                t.MixedSpotMaxPrice = spec.MaxPrice

\* a template and its group were built from a spec with a mixed-instances
\* policy and the max price 0.5: the template's spot price is empty and the
\* group carries 0.5
C10_Witness ==
    \E i, j \in TaskIndexes :
        /\ Tasks[i].kind = "LaunchTemplate"
        /\ inputSpecs[IGOf(Tasks[i])].MixedInstancesPolicy # Nil
        /\ inputSpecs[IGOf(Tasks[i])].MaxPrice = Ptr("0.5")
        /\ Tasks[i].SpotPrice = Ptr("")
        /\ IsGroupTask(Tasks[j])
        /\ Tasks[j].LaunchTemplate = Ptr(i)
        /\ Tasks[j].MixedSpotMaxPrice = Ptr("0.5")

(***************************************************************************)
(* C11.  The associate-public-IP value of a launch resource.               *)
(***************************************************************************)
\* the type of the first subnet gathered for the k-th instance group
FirstSubnetType(k) == collab[k].Subnets[1].Type

\* C11: the associate-public-IP value of every launch resource, of either
\* shape, is decided by the type of the first gathered subnet: for a public
\* or utility subnet it is the spec's explicit value when one is set and true
\* otherwise; for a private subnet it is false whatever the spec sets.
C11_AssociatePublicIP ==
    \A i \in TaskIndexes :
        IsLaunchTask(Tasks[i]) =>
            LET k == IGOf(Tasks[i])
                explicit == inputSpecs[k].AssociatePublicIP
            IN  Tasks[i].AssociatePublicIP =
                    IF FirstSubnetType(k) \in {SubnetTypePublic, SubnetTypeUtility}
                    THEN (IF explicit # Nil THEN explicit ELSE Ptr(TRUE))
                    ELSE Ptr(FALSE)

\* a launch resource was built for a spec that sets the value to true, the
\* first gathered subnet being private and the second public: it carries
\* false
C11_Witness ==
    /\ \E i \in TaskIndexes :
        /\ IsLaunchTask(Tasks[i])
        /\ collab[IGOf(Tasks[i])].Subnets =
               <<[Name |-> "subnet-1", Type |-> SubnetTypePrivate],
                 [Name |-> "subnet-2", Type |-> SubnetTypePublic]>>
        /\ inputSpecs[IGOf(Tasks[i])].AssociatePublicIP = Ptr(TRUE)
        /\ Tasks[i].AssociatePublicIP = Ptr(FALSE)
    /\ Returned

(***************************************************************************)
(* C12.  The capacity bounds of a group.                                   *)
(***************************************************************************)
\* the bound the spec asks for: its explicit value, or else 2 for the worker
\* role and 1 for every other role
BoundOfSpec(explicit, role) ==
    IF explicit = Nil
    THEN (IF role = InstanceGroupRoleNode THEN Ptr(2) ELSE Ptr(1))
    ELSE explicit

\* C12: each of the min and the max of every assembled group equals the
\* spec's explicit value when that bound is set, and otherwise 2 for the
\* worker role and 1 for every other role.
C12_CapacityBounds ==
    \A i \in TaskIndexes :
        IsGroupTask(Tasks[i]) =>
            LET spec == inputSpecs[IGOf(Tasks[i])]
            IN  /\ Tasks[i].MinSize = BoundOfSpec(spec.MinSize, spec.Role)
                /\ Tasks[i].MaxSize = BoundOfSpec(spec.MaxSize, spec.Role)

\* a group was assembled for a worker spec with the explicit min 0 and no
\* max: it has min 0 and max 2
C12_Witness ==
    \E i \in TaskIndexes :
        /\ IsGroupTask(Tasks[i])
        /\ inputSpecs[IGOf(Tasks[i])].Role = InstanceGroupRoleNode
        /\ inputSpecs[IGOf(Tasks[i])].MinSize = Ptr(0)
        /\ inputSpecs[IGOf(Tasks[i])].MaxSize = Nil
        /\ Tasks[i].MinSize = Ptr(0)
        /\ Tasks[i].MaxSize = Ptr(2)

(***************************************************************************)
(* C13.  The load balancers and target groups attached to a group.         *)
(***************************************************************************)
\* the external load-balancing integration fully manages the attachments of
\* the k-th instance group
FullyManaged(k) ==
    /\ featureflag.Spotinst
    /\ ~(featureflag.SpotinstHybrid /\ ~collab[k].Hybrid)

\* the names of the classic load balancers the role of the k-th spec calls for
RoleLoadBalancerNames(k) ==
    IF FullyManaged(k) THEN {} ELSE
    (IF /\ inputSpecs[k].Role = InstanceGroupRoleMaster
        /\ Cluster.UseLoadBalancerForAPI
        /\ Cluster.LoadBalancerClass # "Network"
     THEN {"api.c1"} ELSE {})
    \cup (IF inputSpecs[k].Role = InstanceGroupRoleBastion THEN {"bastion.c1"} ELSE {})

\* the names of the target groups the role of the k-th spec calls for
RoleTargetGroupNames(k) ==
    IF /\ ~FullyManaged(k)
       /\ inputSpecs[k].Role = InstanceGroupRoleMaster
       /\ Cluster.UseLoadBalancerForAPI
       /\ Cluster.LoadBalancerClass = "Network"
    THEN {"tcp-c1"} \cup (IF Cluster.SSLCertificate # "" THEN {"tls-c1"} ELSE {})
    ELSE {}

\* the entries of a list of the group that are shared external resources,
\* and those that are links to the cluster's own resources
ExternalEntries(list) == {j \in DOMAIN list : "Shared" \in DOMAIN list[j]}
LinkedNames(list) ==
    {StringValue(list[j].Name) : j \in DOMAIN list \ ExternalEntries(list)}

\* the entries of the spec's external list that name a load balancer, and
\* those that give a target group ARN
NamedEntries(ext) == {j \in DOMAIN ext : ext[j].LoadBalancerName # Nil}
ArnEntries(ext) == {j \in DOMAIN ext : ext[j].TargetGroupARN # Nil}

\* C13: the role-based attachments of every assembled group are none when
\* the integration fully manages the instance group; otherwise the classic
\* API load balancer or, with network load balancing, the tcp target group
\* and the tls one only with a certificate, for a control-plane group with
\* API load balancing, and the bastion load balancer for a bastion group.
\* The external load balancers and target groups of the spec are attached,
\* one shared entry each, whatever that condition.
C13_Attachments ==
    \A i \in TaskIndexes :
        IsGroupTask(Tasks[i]) =>
            LET k == IGOf(Tasks[i])
                ext == inputSpecs[k].ExternalLoadBalancers
                lbs == Tasks[i].LoadBalancers
                tgs == Tasks[i].TargetGroups
            IN  /\ LinkedNames(lbs) = RoleLoadBalancerNames(k)
                /\ LinkedNames(tgs) = RoleTargetGroupNames(k)
                /\ Len(lbs) = Cardinality(RoleLoadBalancerNames(k))
                                + Cardinality(NamedEntries(ext))
                /\ Len(tgs) = Cardinality(RoleTargetGroupNames(k))
                                + Cardinality(ArnEntries(ext))
                /\ \A j \in NamedEntries(ext) :
                       Cardinality({n \in ExternalEntries(lbs) :
                                       lbs[n].Name = ext[j].LoadBalancerName})
                       = Cardinality({m \in NamedEntries(ext) :
                                       ext[m].LoadBalancerName = ext[j].LoadBalancerName})
                /\ \A j \in ArnEntries(ext) :
                       Cardinality({n \in ExternalEntries(tgs) :
                                       tgs[n].ARN = ext[j].TargetGroupARN})
                       = Cardinality({m \in ArnEntries(ext) :
                                       ext[m].TargetGroupARN = ext[j].TargetGroupARN})

\* a control-plane group was assembled under full management, API load
\* balancing being enabled, from a spec that lists an external load balancer
\* and an external target group: it carries these two and nothing else
C13_Witness ==
    \E i \in TaskIndexes :
        /\ IsGroupTask(Tasks[i])
        /\ FullyManaged(IGOf(Tasks[i]))
        /\ inputSpecs[IGOf(Tasks[i])].Role = InstanceGroupRoleMaster
        /\ Cluster.UseLoadBalancerForAPI
        /\ Len(inputSpecs[IGOf(Tasks[i])].ExternalLoadBalancers) = 2
        /\ Len(Tasks[i].LoadBalancers) = 1
        /\ Len(Tasks[i].TargetGroups) = 1
        /\ Tasks[i].LoadBalancers[1].Name = Ptr("lb-b")
        /\ Tasks[i].TargetGroups[1].ARN = Ptr(ArnTgA)

(***************************************************************************)
(* C14.  The order of the lists of a group.                                *)
(***************************************************************************)
\* the names of a list's entries, in the list's order
NamesInOrder(list) == [j \in DOMAIN list |-> StringValue(list[j].Name)]

\* no entry of the list has a name that comes before the name of an entry
\* ahead of it
SortedByName(list) ==
    \A a, b \in DOMAIN list :
        a < b => NameRank(StringValue(list[a].Name)) <= NameRank(StringValue(list[b].Name))

\* C14: the load-balancer list and the target-group list of every assembled
\* group are sorted by name, in whatever order the role-based and the
\* external references were appended.
C14_SortedLists ==
    \A i \in TaskIndexes :
        IsGroupTask(Tasks[i]) =>
            /\ SortedByName(Tasks[i].LoadBalancers)
            /\ SortedByName(Tasks[i].TargetGroups)

\* a control-plane group was assembled, with network load balancing and a
\* certificate, from a spec that lists target group tg-b before tg-a: the
\* role-based tcp and tls target groups, appended first, come last, and tg-a
\* comes before tg-b
C14_Witness ==
    \E i \in TaskIndexes :
        /\ IsGroupTask(Tasks[i])
        /\ inputSpecs[IGOf(Tasks[i])].ExternalLoadBalancers =
               << [LoadBalancerName |-> Nil, TargetGroupARN |-> Ptr(ArnTgB)],
                  [LoadBalancerName |-> Nil, TargetGroupARN |-> Ptr(ArnTgA)] >>
        /\ NamesInOrder(Tasks[i].TargetGroups) =
               <<"master.c1-tg-a", "master.c1-tg-b", "tcp-c1", "tls-c1">>

(***************************************************************************)
(* C15.  The request of a Detach.                                          *)
(***************************************************************************)
DetachReturned == apc = "returned" /\ call.op = "Detach"

\* C15: a Detach on any of the three services (classic group, managed
\* cluster, managed launch spec) sends a request whose instances are exactly
\* the one instance given, with decrement-target-capacity = false and
\* terminate-instances = true, for every group and instance identity.
C15_DetachRequest ==
    DetachReturned =>
        /\ variant \in {"eg", "oc", "ls"}
        /\ request.InstanceIDs = <<call.instanceID>>
        /\ request.ShouldDecrementTargetCapacity = Ptr(FALSE)
        /\ request.ShouldTerminateInstances = Ptr(TRUE)

\* a Detach of instance i-2 from launch spec ols-2 was sent for that one
\* instance, and the backend's error came back to the caller
C15_Witness ==
    /\ DetachReturned
    /\ variant = "ls"
    /\ call = DetachCall("ols-2", "i-2")
    /\ request.InstanceIDs = <<"i-2">>
    /\ request.ShouldTerminateInstances = Ptr(TRUE)
    /\ detachRet = PlainError(MsgOther)

(***************************************************************************)
(* C16.  The registry's target group entries.                              *)
(***************************************************************************)
\* C16 as stated: after a build pass over any sequence of instance groups,
\* one that lists the same target group ARN more than once included, the
\* registry holds no two target group entries with the same name.
C16_AsStated ==
    Returned =>
        \A i, j \in TaskIndexes :
            /\ i # j
            /\ Tasks[i].kind = "TargetGroup"
            /\ Tasks[j].kind = "TargetGroup"
            => Tasks[i].Name # Tasks[j].Name
====
